---- MODULE Spec2Model ----
(***************************************************************************)
(* A model of llm_code_context/file_selector.py: PathspecIgnorer,          *)
(* GitIgnorer (the scoped ignore registry) and FileSelector (the traversal *)
(* and the selection update).  Paths and patterns are strings, handled     *)
(* character by character as the Python code handles them.                 *)
(***************************************************************************)
EXTENDS Integers, Sequences, FiniteSets, TLC

VARIABLES
    fs,            \* the project tree on disk: listings, .gitignore contents, and
                   \* the path that cannot be listed or read, "" when none
    xtra,          \* config_manager.project["gitignores"]: extra root patterns
    pc,            \* position of main(): start, created, traversing, selecting, done,
                   \* failed; answered after a direct call of an ignore method
    error,         \* the exception that ended the run, "" when none
    ignorer_data,  \* GitIgnorer.ignorer_data: sequence of [prefix, patterns]
    call,          \* the directory traverse is about to be invoked on, "" when none
    stack,         \* the activation records of traverse, innermost last
    result,        \* the list get_all returned
    selected,      \* the configuration's persisted selection
    select_calls,  \* how often select_files was invoked
    calls,         \* every directory traverse was invoked on, in order
    asked,         \* every query traverse passed to GitIgnorer.ignore
    consulted,     \* every path GitIgnorer.ignore handed to a scope's matcher
    asker,         \* which ignore method was last called directly, "" when none
    query,         \* the path of that direct call
    answer         \* its outcome

vars == <<fs, xtra, pc, error, ignorer_data, call, stack, result, selected,
          select_calls, calls, asked, consulted, asker, query, answer>>

\* The total number of pattern lines (extra patterns and .gitignore lines) of a run.
MaxLines == 2

-----------------------------------------------------------------------------
(* Strings *)

startswith(s, p) == Len(p) <= Len(s) /\ SubSeq(s, 1, Len(p)) = p

endswith(s, p) == Len(p) <= Len(s) /\ SubSeq(s, Len(s) - Len(p) + 1, Len(s)) = p

\* The index of the first "/" of s, 0 when there is none.
FirstSlash(s) ==
    LET idx == {i \in 1..Len(s) : SubSeq(s, i, i) = "/"}
    IN  IF idx = {} THEN 0 ELSE CHOOSE i \in idx : \A j \in idx : i <= j

\* str.split("/")
RECURSIVE split(_)
split(s) ==
    LET i == FirstSlash(s)
    IN  IF i = 0 THEN <<s>>
        ELSE <<SubSeq(s, 1, i - 1)>> \o split(SubSeq(s, i + 1, Len(s)))

\* os.path.join(a, b) on POSIX
os_path_join(a, b) ==
    IF startswith(b, "/") THEN b
    ELSE IF a = "" \/ endswith(a, "/") THEN a \o b
    ELSE a \o "/" \o b

\* os.path.relpath(path, start) for a path that is start or lies under it
os_path_relpath(path, start) ==
    IF path = start THEN "."
    ELSE SubSeq(path, Len(start) + 2, Len(path))

\* Concatenation of a sequence of sequences.
RECURSIVE Flatten(_)
Flatten(ss) == IF ss = <<>> THEN <<>> ELSE Head(ss) \o Flatten(Tail(ss))

Range(s) == {s[i] : i \in 1..Len(s)}

-----------------------------------------------------------------------------
(* pathspec.GitIgnoreSpec, on the patterns the model draws: a name or a    *)
(* glob with "*", optionally negated by a leading "!", anchored by a       *)
(* leading or inner "/", restricted to directories by a trailing "/".      *)

\* A pattern GitIgnoreSpec.from_lines rejects: a dangling escape character.
is_malformed(pattern) == endswith(pattern, "\\")

\* fnmatch of one path segment against one pattern segment; "*" matches any run
\* of characters of the segment.
RECURSIVE GlobMatch(_, _)
GlobMatch(p, s) ==
    IF p = "" THEN s = ""
    ELSE IF Head(p) = "*"
         THEN GlobMatch(Tail(p), s) \/ (s # "" /\ GlobMatch(p, Tail(s)))
         ELSE s # "" /\ Head(s) = Head(p) /\ GlobMatch(Tail(p), Tail(s))

\* pathspec.util.normalize_file: one leading "/" is dropped, else one leading "./".
normalize_file(file) ==
    IF startswith(file, "/") THEN Tail(file)
    ELSE IF startswith(file, "./") THEN SubSeq(file, 3, Len(file))
    ELSE file

negated(pattern) == startswith(pattern, "!")

\* Whether one pattern matches the file: the pattern's segments match a run of
\* the file's segments (from the first one when the pattern is anchored), and
\* what they match is the file itself or one of its ancestor directories; a
\* pattern ending in "/" matches directories only.
pattern_matches(pattern, file) ==
    LET body     == IF negated(pattern) THEN Tail(pattern) ELSE pattern
        dir_only == endswith(body, "/")
        core     == IF dir_only THEN SubSeq(body, 1, Len(body) - 1) ELSE body
        anchored == FirstSlash(core) # 0
        psegs    == IF startswith(core, "/") THEN split(Tail(core)) ELSE split(core)
        fsegs    == split(normalize_file(file))
        n        == Len(psegs)
        starts   == IF anchored THEN {1} ELSE 1..Len(fsegs)
    IN  /\ core # ""
        /\ \E i \in starts :
              /\ i + n - 1 <= Len(fsegs)
              /\ \A k \in 1..n :
                    fsegs[i + k - 1] # "" /\ GlobMatch(psegs[k], fsegs[i + k - 1])
              /\ (i + n - 1 < Len(fsegs) \/ ~dir_only)

\* GitIgnoreSpec.match_file: the last pattern that matches decides.
match_file(patterns, file) ==
    LET hits == {i \in 1..Len(patterns) : pattern_matches(patterns[i], file)}
    IN  /\ hits # {}
        /\ ~negated(patterns[CHOOSE i \in hits : \A j \in hits : j <= i])

-----------------------------------------------------------------------------
(* PathspecIgnorer *)

\* PathspecIgnorer.create: the exception it raises, "" when it returns.
PathspecIgnorer_create(ignore_patterns) ==
    IF \E i \in 1..Len(ignore_patterns) : is_malformed(ignore_patterns[i])
    THEN "PatternSyntaxError" ELSE ""

\* PathspecIgnorer.ignore without its assertion.
PathspecIgnorer_ignore_unchecked(patterns, path) ==
    [exc |-> "", value |-> match_file(patterns, path)]

\* PathspecIgnorer.ignore: [exc, value].
PathspecIgnorer_ignore(patterns, path) ==
    IF path \in {"/", ""}
    THEN [exc |-> "AssertionError", value |-> FALSE]
    ELSE [exc |-> "", value |-> match_file(patterns, path)]

-----------------------------------------------------------------------------
(* GitIgnorer *)

\* The argument GitIgnorer.ignore passes to the matcher of the scope `prefix`.
handed_path(prefix, path) == path

\* The loop of GitIgnorer.ignore from scope i on: the answer, and the scopes
\* consulted until it returns.
RECURSIVE ignore_loop(_, _, _)
ignore_loop(data, path, i) ==
    IF i > Len(data) THEN [value |-> FALSE, consulted |-> <<>>]
    ELSE IF startswith(path, data[i].prefix)
         THEN LET h == handed_path(data[i].prefix, path)
                  c == [scope |-> i, prefix |-> data[i].prefix,
                        query |-> path, handed |-> h]
                  r == PathspecIgnorer_ignore(data[i].patterns, h)
              IN  IF r.value THEN [value |-> TRUE, consulted |-> <<c>>]
                  ELSE LET rest == ignore_loop(data, path, i + 1)
                       IN  [value |-> rest.value,
                            consulted |-> <<c>> \o rest.consulted]
         ELSE ignore_loop(data, path, i + 1)

\* GitIgnorer.ignore with the applicable scopes' patterns merged into one list,
\* so that a negation of one scope re-includes what another scope ignores.
GitIgnorer_ignore_merged(data, path) ==
    IF path \in {"/", ""}
    THEN [exc |-> "AssertionError", value |-> FALSE, consulted |-> <<>>]
    ELSE LET applicable == SelectSeq(data, LAMBDA d : startswith(path, d.prefix))
             merged == Flatten([i \in 1..Len(applicable) |-> applicable[i].patterns])
         IN  [exc |-> "", value |-> match_file(merged, path),
              consulted |-> ignore_loop(data, path, 1).consulted]

\* GitIgnorer.ignore: [exc, value, consulted].
GitIgnorer_ignore(data, path) ==
    IF path \in {"/", ""}
    THEN [exc |-> "AssertionError", value |-> FALSE, consulted |-> <<>>]
    ELSE LET r == ignore_loop(data, path, 1)
         IN  [exc |-> "", value |-> r.value, consulted |-> r.consulted]

\* GitIgnorer._collect_gitignores below directory `root` of the walk started at
\* `top`: os.walk is top-down and, with no onerror handler, passes over a
\* directory it cannot list, subtree included.  Each element also names the
\* file that open() is called on.
RECURSIVE collect_gitignores(_, _, _)
collect_gitignores(f, top, root) ==
    IF root = f.unreadable THEN <<>>
    ELSE LET entries == f.ls[root]
             subdirs == SelectSeq(entries,
                            LAMBDA e : os_path_join(root, e) \in DOMAIN f.ls)
             files   == SelectSeq(entries,
                            LAMBDA e : os_path_join(root, e) \notin DOMAIN f.ls)
             relpath == os_path_relpath(root, top)
             fixpath == IF relpath = "." THEN "/" ELSE "/" \o relpath
             here    == IF ".gitignore" \in Range(files)
                        THEN <<[prefix |-> fixpath,
                                patterns |-> f.gi[os_path_join(root, ".gitignore")],
                                file |-> os_path_join(root, ".gitignore")]>>
                        ELSE <<>>
         IN  here \o Flatten([i \in 1..Len(subdirs) |->
                        collect_gitignores(f, top, os_path_join(root, subdirs[i]))])

\* GitIgnorer.from_git_root: [exc, data].  The extra patterns are compiled
\* first, then every .gitignore is read, then each is compiled.
from_git_root(f, root_dir, xtra_root_patterns) ==
    LET gitignores == collect_gitignores(f, root_dir, root_dir)
        unread     == \E i \in 1..Len(gitignores) : gitignores[i].file = f.unreadable
        bad        == \E i \in 1..Len(gitignores) :
                          PathspecIgnorer_create(gitignores[i].patterns) # ""
    IN  IF PathspecIgnorer_create(xtra_root_patterns) # ""
        THEN [exc |-> "PatternSyntaxError", data |-> <<>>]
        ELSE IF unread
        THEN [exc |-> "IoError", data |-> <<>>]
        ELSE IF bad
        THEN [exc |-> "PatternSyntaxError", data |-> <<>>]
        ELSE [exc |-> "",
              data |-> <<[prefix |-> "/", patterns |-> xtra_root_patterns]>>
                       \o [i \in 1..Len(gitignores) |->
                              [prefix |-> gitignores[i].prefix,
                               patterns |-> gitignores[i].patterns]]]

-----------------------------------------------------------------------------
(* ConfigManager: the project root, as a file system path and as the path  *)
(* that relative paths are taken from.                                     *)

project_root_path == "/proj"

project_root == project_root_path

-----------------------------------------------------------------------------
(* FileSelector.traverse *)

isdir(f, path) == path \in DOMAIN f.ls

\* The path traverse asks the registry about for entry e of the directory whose
\* path relative to the project root is relative_current_dir.
query_path(relative_current_dir, e, dir) ==
    "/" \o os_path_join(relative_current_dir, e) \o (IF dir THEN "/" ELSE "")

\* The comprehension `dirs` of traverse without its ignore test.
traverse_dirs_unpruned(f, data, current_dir) ==
    LET kept == SelectSeq(f.ls[current_dir], LAMBDA e :
                    isdir(f, os_path_join(current_dir, e)))
    IN  [i \in 1..Len(kept) |-> os_path_join(current_dir, kept[i])]

\* The comprehension `dirs` of traverse.
traverse_dirs(f, data, current_dir) ==
    LET entries == f.ls[current_dir]
        relative_current_dir == os_path_relpath(current_dir, project_root)
        kept == SelectSeq(entries, LAMBDA e :
                    /\ isdir(f, os_path_join(current_dir, e))
                    /\ ~GitIgnorer_ignore(data,
                            query_path(relative_current_dir, e, TRUE)).value)
    IN  [i \in 1..Len(kept) |-> os_path_join(current_dir, kept[i])]

\* The comprehension `files` of traverse.
traverse_files(f, data, current_dir) ==
    LET entries == f.ls[current_dir]
        relative_current_dir == os_path_relpath(current_dir, project_root)
        kept == SelectSeq(entries, LAMBDA e :
                    /\ ~isdir(f, os_path_join(current_dir, e))
                    /\ ~GitIgnorer_ignore(data,
                            query_path(relative_current_dir, e, FALSE)).value)
    IN  [i \in 1..Len(kept) |-> os_path_join(current_dir, kept[i])]

\* traverse returning its own files only.
traverse_return_files_only(files, subdir_files) == files

\* traverse returning subdir_files + files.
traverse_return_subdirs_first(files, subdir_files) == subdir_files \o files

\* What traverse returns: files + subdir_files.
traverse_return(files, subdir_files) == files \o subdir_files

\* The queries the two comprehensions of traverse(current_dir) make, each with
\* the entry it is about and the registry's answer.
traverse_queries(f, data, current_dir) ==
    LET relative_current_dir == os_path_relpath(current_dir, project_root)
    IN  {LET e_path == os_path_join(current_dir, e)
             q      == query_path(relative_current_dir, e, isdir(f, e_path))
         IN  [entry |-> e_path, dir |-> isdir(f, e_path), query |-> q,
              answer |-> GitIgnorer_ignore(data, q).value]
         : e \in Range(f.ls[current_dir])}

\* The matcher consultations those queries lead to.
traverse_consulted(data, queries) ==
    UNION {Range(GitIgnorer_ignore(data, a.query).consulted) : a \in queries}

-----------------------------------------------------------------------------
(* The project trees and pattern lines of a run *)

\* os.listdir of every directory of a tree with a root .gitignore, an ignorable
\* build directory and a source directory.
TreeBuild ==
    ("/proj"       :> <<"build", ".gitignore", "src">>) @@
    ("/proj/build" :> <<"out.txt">>) @@
    ("/proj/src"   :> <<"main.py">>)

\* A tree with a nested .gitignore, a nested directory below it, and a sibling
\* directory whose name begins with the name of the directory that holds it.
TreeLogs ==
    ("/proj"          :> <<"logs2", "debug.log", "logs", ".gitignore">>) @@
    ("/proj/logs"     :> <<"keep.log", "old", ".gitignore", "debug.log">>) @@
    ("/proj/logs/old" :> <<"debug.log">>) @@
    ("/proj/logs2"    :> <<"keep.log">>)

\* os.listdir promises no order: the listings above are unsorted and mix files
\* and directories.
Trees == {TreeBuild, TreeLogs}

\* The lines a pattern file may hold; the last one is malformed.
Pool == {"build/", "*.log", "!keep.log", "logs/", "/keep.log", "x\\"}

GitignoreFiles(ls) ==
    {os_path_join(d, ".gitignore") : d \in {x \in DOMAIN ls : ".gitignore" \in Range(ls[x])}}

\* Where a pattern line may be written: the configuration's extra patterns, or
\* one of the tree's .gitignore files.
Slots(ls) == {"gitignores"} \cup GitignoreFiles(ls)

SeqsUpTo(S, n) == UNION {[1..k -> S] : k \in 0..n}

\* The lines written to one slot, in the order written.
LinesOf(lines, slot) ==
    LET mine == SelectSeq(lines, LAMBDA l : l[1] = slot)
    IN  [i \in 1..Len(mine) |-> mine[i][2]]

\* The outcome of a call that has not been made.
NoAnswer == [exc |-> "", value |-> FALSE]

Init ==
    /\ \E ls \in Trees : \E lines \in SeqsUpTo(Slots(ls) \X Pool, MaxLines) :
       \E unreadable \in {""} \cup DOMAIN ls \cup GitignoreFiles(ls) :
          /\ fs = [ls |-> ls,
                   gi |-> [g \in GitignoreFiles(ls) |-> LinesOf(lines, g)],
                   unreadable |-> unreadable]
          /\ xtra = LinesOf(lines, "gitignores")
    /\ pc = "start"
    /\ error = ""
    /\ ignorer_data = <<>>
    /\ call = ""
    /\ stack = <<>>
    /\ result = <<>>
    /\ selected = <<"/proj/stale">>
    /\ select_calls = 0
    /\ calls = <<>>
    /\ asked = {}
    /\ consulted = {}
    /\ asker = ""
    /\ query = ""
    /\ answer = NoAnswer

-----------------------------------------------------------------------------
(* main: FileSelector.create, then update_selected *)

\* An update_selected that catches the exception and goes on to select_files.
on_exception_swallowed(exc) == "selecting"

\* Where main continues when `exc` is raised below update_selected or create:
\* neither catches anything, so the run ends.
on_exception(exc) == "failed"

\* FileSelector.create
create ==
    /\ pc = "start"
    /\ LET r == from_git_root(fs, project_root_path, xtra)
       IN  IF r.exc # ""
           THEN /\ pc' = on_exception(r.exc)
                /\ error' = r.exc
                /\ UNCHANGED ignorer_data
           ELSE /\ pc' = "created"
                /\ ignorer_data' = r.data
                /\ UNCHANGED error
    /\ UNCHANGED <<fs, xtra, call, stack, result, selected, select_calls, calls,
                   asked, consulted, asker, query, answer>>

\* update_selected calls get_all, which calls traverse on the project root.
get_all ==
    /\ pc = "created"
    /\ pc' = "traversing"
    /\ call' = project_root_path
    /\ UNCHANGED <<fs, xtra, error, ignorer_data, stack, result, selected,
                   select_calls, calls, asked, consulted, asker, query, answer>>

\* traverse(call) up to its first recursive call: os.listdir, which fails on
\* an unreadable directory, then the two comprehensions.
traverse_enter ==
    /\ pc = "traversing"
    /\ call # ""
    /\ calls' = Append(calls, call)
    /\ IF call = fs.unreadable
       THEN /\ pc' = on_exception("IoError")
            /\ error' = "IoError"
            /\ UNCHANGED <<stack, call, asked, consulted>>
       ELSE LET qs    == traverse_queries(fs, ignorer_data, call)
                dirs  == traverse_dirs(fs, ignorer_data, call)
                files == traverse_files(fs, ignorer_data, call)
            IN  /\ stack' = Append(stack, [dir |-> call, files |-> files,
                                           dirs |-> dirs, idx |-> 1, sub |-> <<>>])
                /\ call' = IF dirs # <<>> THEN dirs[1] ELSE ""
                /\ asked' = asked \cup qs
                /\ consulted' = consulted \cup traverse_consulted(ignorer_data, qs)
                /\ UNCHANGED <<pc, error>>
    /\ UNCHANGED <<fs, xtra, ignorer_data, result, selected, select_calls,
                   asker, query, answer>>

\* The innermost traverse returns files + subdir_files, to its caller's
\* comprehension or to get_all.
traverse_exit ==
    /\ pc = "traversing"
    /\ call = ""
    /\ stack # <<>>
    /\ LET top == stack[Len(stack)]
           ret == traverse_return(top.files, top.sub)
       IN  IF Len(stack) = 1
           THEN /\ result' = ret
                /\ stack' = <<>>
                /\ pc' = "selecting"
                /\ UNCHANGED call
           ELSE LET parent == stack[Len(stack) - 1]
                    next   == parent.idx + 1
                IN  /\ stack' = [SubSeq(stack, 1, Len(stack) - 1)
                                   EXCEPT ![Len(stack) - 1] =
                                       [parent EXCEPT !.sub = @ \o ret, !.idx = next]]
                    /\ call' = IF next <= Len(parent.dirs) THEN parent.dirs[next] ELSE ""
                    /\ UNCHANGED <<result, pc>>
    /\ UNCHANGED <<fs, xtra, error, ignorer_data, selected, select_calls, calls,
                   asked, consulted, asker, query, answer>>

\* config_manager.select_files(all_files)
select_files ==
    /\ pc = "selecting"
    /\ selected' = result
    /\ select_calls' = select_calls + 1
    /\ pc' = "done"
    /\ UNCHANGED <<fs, xtra, error, ignorer_data, call, stack, result, calls,
                   asked, consulted, asker, query, answer>>

Next == create \/ get_all \/ traverse_enter \/ traverse_exit \/ select_files

Spec == Init /\ [][Next]_vars

-----------------------------------------------------------------------------
(* The ignore methods called directly on a built registry *)

Queries == {"/", "", "/./debug.log", "/./logs/", "/logs/keep.log", "/logs2/keep.log"}

\* GitIgnorer.ignore(q)
registry_ignore ==
    /\ pc = "created"
    /\ \E q \in Queries :
          LET r == GitIgnorer_ignore(ignorer_data, q)
          IN  /\ query' = q
              /\ answer' = [exc |-> r.exc, value |-> r.value]
    /\ asker' = "GitIgnorer"
    /\ pc' = "answered"
    /\ UNCHANGED <<fs, xtra, error, ignorer_data, call, stack, result, selected,
                   select_calls, calls, asked, consulted>>

\* PathspecIgnorer.ignore(q) on the matcher of one scope
matcher_ignore ==
    /\ pc = "created"
    /\ \E q \in Queries : \E i \in 1..Len(ignorer_data) :
          /\ query' = q
          /\ answer' = PathspecIgnorer_ignore(ignorer_data[i].patterns, q)
    /\ asker' = "PathspecIgnorer"
    /\ pc' = "answered"
    /\ UNCHANGED <<fs, xtra, error, ignorer_data, call, stack, result, selected,
                   select_calls, calls, asked, consulted>>

NextIgnore == create \/ registry_ignore \/ matcher_ignore

SpecIgnore == Init /\ [][NextIgnore]_vars

-----------------------------------------------------------------------------
(* Vocabulary of the properties *)

\* Every entry of the tree, as an absolute path.
Entries(f) == UNION {{os_path_join(d, e) : e \in Range(f.ls[d])} : d \in DOMAIN f.ls}

FilesOf(f) == {p \in Entries(f) : ~isdir(f, p)}

\* The directory that lists entry p.
ParentOf(f, p) ==
    CHOOSE d \in DOMAIN f.ls : \E e \in Range(f.ls[d]) : os_path_join(d, e) = p

\* The directories below the project root that entry p lies in.
AncestorsOf(f, p) ==
    {d \in DOMAIN f.ls \ {project_root_path} : startswith(p, d \o "/")}

\* The registry's answer to the query traverse makes about entry p.
Reported(p) ==
    LET d == ParentOf(fs, p)
        e == CHOOSE e \in Range(fs.ls[d]) : os_path_join(d, e) = p
    IN  GitIgnorer_ignore(ignorer_data,
            query_path(os_path_relpath(d, project_root), e, isdir(fs, p))).value

Count(seq, x) == Cardinality({i \in 1..Len(seq) : seq[i] = x})

\* Every path some activation of traverse holds or get_all has returned.
Collected ==
    Range(result) \cup
    UNION {Range(stack[i].files) \cup Range(stack[i].sub) : i \in 1..Len(stack)}

\* The list the recursive description of traverse gives for directory d: its
\* non-ignored non-directory entries in listing order, then the lists of its
\* non-ignored subdirectories in listing order.
RECURSIVE Described(_)
Described(d) ==
    LET own  == SelectSeq(fs.ls[d], LAMBDA e :
                    ~isdir(fs, os_path_join(d, e)) /\ ~Reported(os_path_join(d, e)))
        subs == SelectSeq(fs.ls[d], LAMBDA e :
                    isdir(fs, os_path_join(d, e)) /\ ~Reported(os_path_join(d, e)))
    IN  [i \in 1..Len(own) |-> os_path_join(d, own[i])]
        \o Flatten([i \in 1..Len(subs) |-> Described(os_path_join(d, subs[i]))])

-----------------------------------------------------------------------------
(* Properties *)

\* C1 as stated: when get_all has returned, every file whose own query the
\* registry answers "not ignored" is in the result exactly once.
C1_EveryUnignoredFileOnce ==
    pc = "done" =>
        \A p \in FilesOf(fs) : ~Reported(p) => Count(result, p) = 1

\* C1 amended: when get_all has returned, every file that the registry does not
\* report ignored, and none of whose ancestor directories below the root it
\* reports ignored, is in the result exactly once.
C1_UnprunedFileOnce ==
    pc = "done" =>
        \A p \in FilesOf(fs) :
            (~Reported(p) /\ \A a \in AncestorsOf(fs, p) : ~Reported(a))
                => Count(result, p) = 1

\* A finished run that kept a file of a subdirectory and dropped another file.
C1_Witness ==
    /\ pc = "done"
    /\ \E p \in FilesOf(fs) : AncestorsOf(fs, p) # {} /\ Count(result, p) = 1
    /\ \E q \in FilesOf(fs) : Reported(q)

\* C2: an entry the registry reports ignored is never collected; if it is a
\* directory, traverse is never invoked on it and nothing below it is collected,
\* whatever the registry says about what is below.
C2_IgnoredIsPruned ==
    ignorer_data # <<>> =>
        \A p \in Entries(fs) : Reported(p) =>
            /\ p \notin Collected
            /\ isdir(fs, p) =>
                  /\ p \notin Range(calls)
                  /\ call # p
                  /\ \A x \in Collected : ~startswith(x, p \o "/")

\* A finished run with an ignored directory that holds a file the registry does
\* not report ignored.
C2_Witness ==
    /\ pc = "done"
    /\ \E p \in DOMAIN fs.ls \ {project_root_path} :
          /\ Reported(p)
          /\ \E x \in FilesOf(fs) : startswith(x, p \o "/") /\ ~Reported(x)

\* C3: the matcher of a nested scope (directory d) is consulted only for d
\* itself or for an entry inside d.
C3_ScopeIsSubtree ==
    \A c \in consulted :
        c.prefix # "/" =>
            c.query = c.prefix \o "/" \/ startswith(c.query, c.prefix \o "/")

\* The tree, patterns and configuration of the build/ scenario.
C4_Scenario ==
    /\ fs.ls = TreeBuild
    /\ fs.gi["/proj/.gitignore"] = <<"build/">>
    /\ xtra = <<>>

\* C4 as stated: in the build/ scenario get_all returns only src/main.py, and
\* traverse is never invoked on build/.
C4_OnlyMainPy ==
    C4_Scenario =>
        /\ "/proj/build" \notin Range(calls)
        /\ pc = "done" => result = <<"/proj/src/main.py">>

\* C4 amended: in the build/ scenario get_all returns the root's .gitignore
\* file followed by src/main.py, and traverse is never invoked on build/.
C4_GitignoreAndMainPy ==
    C4_Scenario =>
        /\ "/proj/build" \notin Range(calls)
        /\ call # "/proj/build"
        /\ pc = "done" => result = <<"/proj/.gitignore", "/proj/src/main.py">>

\* The build/ scenario, run to its end.
C4_Witness == C4_Scenario /\ pc = "done" /\ selected = result

\* The tree and patterns of the *.log scenario.
C5_Scenario ==
    /\ fs.ls = TreeLogs
    /\ fs.gi["/proj/.gitignore"] = <<"*.log">>
    /\ fs.gi["/proj/logs/.gitignore"] = <<"!keep.log">>

\* C5: the registry's answer to a query is true iff some scope whose prefix the
\* query starts with has its own matcher report the query ignored; and in the
\* *.log scenario logs/keep.log, logs/debug.log and debug.log are all excluded.
C5_IgnoreIsOrOfScopes ==
    /\ \A a \in asked :
          a.answer <=>
              \E i \in 1..Len(ignorer_data) :
                  /\ startswith(a.query, ignorer_data[i].prefix)
                  /\ match_file(ignorer_data[i].patterns, a.query)
    /\ (C5_Scenario /\ pc = "done") =>
          {"/proj/logs/keep.log", "/proj/logs/debug.log", "/proj/debug.log"}
              \cap Range(result) = {}

\* The *.log scenario, run to its end, with the nested scope consulted.
C5_Witness ==
    /\ C5_Scenario
    /\ pc = "done"
    /\ \E c \in consulted : c.prefix = "/logs"
    /\ \E a \in asked : a.entry = "/proj/logs/keep.log" /\ a.answer

\* C6: select_files is invoked at most once, only after get_all has returned,
\* with the list it returned; a run that failed never invoked it and left the
\* persisted selection as it was.
C6_NoPartialResult ==
    /\ select_calls <= 1
    /\ select_calls = 1 => (pc = "done" /\ error = "" /\ selected = result)
    /\ pc \in {"start", "created", "traversing", "selecting"} => select_calls = 0
    /\ error # "" => (select_calls = 0 /\ selected = <<"/proj/stale">>)

\* A traversal that failed below the root, after files had been collected.
C6_Witness ==
    /\ error = "IoError"
    /\ Len(calls) >= 2
    /\ stack # <<>>
    /\ stack[1].files # <<>>

\* C7: what each activation of traverse has collected is what the recursive
\* description gives; at every level a directory's own files precede every file
\* from its subdirectories; and no directory is collected.
C7_FilesThenSubdirs ==
    /\ \A i \in 1..Len(stack) :
          LET fr == stack[i]
          IN  /\ fr.files \o fr.sub =
                    SubSeq(Described(fr.dir), 1, Len(fr.files) + Len(fr.sub))
              /\ fr.sub = Flatten([j \in 1..(fr.idx - 1) |-> Described(fr.dirs[j])])
    /\ pc \in {"selecting", "done"} =>
          /\ result = Described(project_root_path)
          /\ \A i, j \in 1..Len(result) :
                \A d \in DOMAIN fs.ls :
                    (/\ ParentOf(fs, result[j]) = d
                     /\ ParentOf(fs, result[i]) # d
                     /\ startswith(result[i], d \o "/")) => j < i
    /\ \A x \in Collected : ~isdir(fs, x)

\* A finished run whose result holds files of three levels.
C7_Witness ==
    /\ pc = "done"
    /\ {"/proj/debug.log", "/proj/logs/keep.log", "/proj/logs/old/debug.log"}
           \subseteq Range(result)

\* C8: ignore("/") and ignore("") raise the assertion and return no answer, on
\* a PathspecIgnorer and on a GitIgnorer.
C8_RootIsContractViolation ==
    (asker # "" /\ query \in {"/", ""}) =>
        (answer.exc = "AssertionError" /\ pc = "answered")

\* The registry with its three scopes asked about "/".
C8_Witness ==
    /\ asker = "GitIgnorer"
    /\ query = "/"
    /\ Len(ignorer_data) = 3
    /\ answer.exc = "AssertionError"

\* C9: the path handed to a nested scope's matcher is the query relative to
\* the scope's directory (for scope /sub and query /sub/foo.py: /foo.py).
\* Stated for the queries about entries inside the scope's directory, where
\* "relative to the scope" has a meaning.
C9_HandedRelativeToScope ==
    \A c \in consulted :
        (c.prefix # "/" /\ startswith(c.query, c.prefix \o "/")) =>
            c.handed = SubSeq(c.query, Len(c.prefix) + 1, Len(c.query))

\* C10: the query for an entry is "/" followed by the entry's path relative to
\* the project root, with a trailing "/" iff the entry is a directory.
C10_QueryIsRelativePath ==
    \A a \in asked :
        a.query = "/" \o os_path_relpath(a.entry, project_root)
                      \o (IF a.dir THEN "/" ELSE "")

====
